---- MODULE Spec2Model ----
(***************************************************************************)
(* Model of the browser-platform-publish action:                           *)
(*   packages/bpp/src/main.ts              run(), getDetailedErrorMessage  *)
(*   packages/bpp/src/vendor/bms/chrome.ts submitChrome and its helpers    *)
(*   packages/bpp/src/utils.ts             isObjectWithKey                 *)
(*                                                                         *)
(* Text is modelled as a sequence of tokens (TLA+ strings); the empty      *)
(* sequence is the empty string and also stands for an absent (undefined)  *)
(* string field, both of which JavaScript treats as falsy.  String         *)
(* building (template literals, JSON.stringify, String.replace, trim) is   *)
(* modelled on the token sequences, so that "the text names the store" is  *)
(* a property of the text that was built.                                  *)
(***************************************************************************)
EXTENDS Integers, Sequences, FiniteSets, TLC

VARIABLES
    pc,               \* position of run()
    keyNames,         \* Object.keys(keys), in the order of the JSON input
    keys,             \* keys: store name -> options object (mutated in place)
    locals,           \* artifact, versionFile, edgeNotes, verbose of run()
    browserEntries,   \* the candidate stores
    idx,              \* index of the for-of loop, of map and of forEach
    promises,         \* deployPromises / their settled results, by index
    chromePc,         \* position of submitChrome / submit
    started,          \* stores whose submission routine has been invoked
    validations,      \* the validateOptions calls made: store, file existence, outcome
    netCalls,         \* stores whose external client.submit call was made
    log,              \* calls of info / warning / debug / setFailed, in order
    sources,          \* per resolved store: the three bundle sources it saw
    console,          \* lines given to console.log by the vendored logger
    verboseStepMap,   \* chrome.ts verboseStepMap
    verboseLogMap,    \* chrome.ts verboseLogMap
    envVerbose,       \* process.env.VERBOSE
    vIn,              \* arguments of an isolated validateOptions call
    vOut,             \* its outcome
    lastCall          \* the last isolated logger / error-wrapping call

vars == <<pc, keyNames, keys, locals, browserEntries, idx, promises, chromePc,
          started, validations, netCalls, log, sources, console, verboseStepMap,
          verboseLogMap, envVerbose, vIn, vOut, lastCall>>

runVars == <<pc, keyNames, keys, locals, browserEntries, idx, promises, chromePc,
             started, validations, netCalls, log, sources>>

verboseVars == <<console, verboseStepMap, verboseLogMap, envVerbose>>

---------------------------------------------------------------------------
(* Text helpers *)

\* JavaScript truthiness of a string value: non-empty.
Truthy(s) == s # <<>>

\* a || b on strings
Or(a, b) == IF Truthy(a) THEN a ELSE b

\* String.prototype.includes for one token
Includes(s, tok) == \E i \in 1..Len(s) : s[i] = tok

\* String.prototype.replace(tok, by): the first occurrence only
Replace(s, tok, by) ==
    IF ~Includes(s, tok) THEN s
    ELSE LET i == CHOOSE j \in 1..Len(s) :
                      s[j] = tok /\ \A k \in 1..(j-1) : s[k] # tok
         IN  SubSeq(s, 1, i-1) \o by \o SubSeq(s, i+1, Len(s))

IsSpace(tok) == tok = " "

RECURSIVE TrimStart(_)
TrimStart(s) ==
    IF s # <<>> /\ IsSpace(Head(s)) THEN TrimStart(Tail(s)) ELSE s

RECURSIVE TrimEnd(_)
TrimEnd(s) ==
    IF s # <<>> /\ IsSpace(s[Len(s)]) THEN TrimEnd(SubSeq(s, 1, Len(s)-1)) ELSE s

Trim(s) == TrimStart(TrimEnd(s))

Min(S) == CHOOSE x \in S : \A y \in S : x <= y

---------------------------------------------------------------------------
(* chrome.ts: stores, options, errors *)

BrowserName == {"chrome", "firefox", "opera", "edge", "itero"}

\* The stores run() has a submission routine for.
supportedBrowserSet == {"chrome", "firefox", "edge", "itero"}

market == "chrome"

\* An Error object: message, stack, and whether it carries the "request" /
\* "response" keys of an HTTP client error.  A thrown value that is not an
\* Error (here: a string) has type "string" and its text in message.
MakeError(type, message, stack, request, response) ==
    [type |-> type, message |-> message, stack |-> stack,
     request |-> request, response |-> response]

\* new Error(message): the engine captures "Error: <message>\n    at ..." as stack
NewError(message) ==
    MakeError("Error", message, <<"Error: ">> \o message \o <<"\n    at <frames>">>,
              FALSE, FALSE)

getFullPath(file) == <<"/cwd/">> \o file

getErrorMessage(mkt, message) == <<mkt, ": ">> \o message

Ok == [threw |-> FALSE]

Throw(e) == [threw |-> TRUE, error |-> e]

\* validateOptions without its required-field loop
validateOptionsNoFieldCheck(mkt, options, errorMap, fileExists) ==
    IF ~Truthy(options.zip) /\ ~Truthy(options.file)
    THEN Throw(NewError(getErrorMessage(mkt, <<"No extension bundle provided">>)))
    ELSE IF ~fileExists
    THEN Throw(NewError(getErrorMessage(mkt,
                 <<"Extension bundle file doesn't exist: ">>
                     \o getFullPath(Or(options.zip, options.file)))))
    ELSE Ok

\* validateOptions with the bundle checks moved before the required-field loop
validateOptionsBundleFirst(mkt, options, errorMap, fileExists) ==
    LET missing == {i \in 1..Len(errorMap) : ~Truthy(options[errorMap[i].key])}
    IN  IF ~Truthy(options.zip) /\ ~Truthy(options.file)
        THEN Throw(NewError(getErrorMessage(mkt, <<"No extension bundle provided">>)))
        ELSE IF ~fileExists
        THEN Throw(NewError(getErrorMessage(mkt,
                     <<"Extension bundle file doesn't exist: ">>
                         \o getFullPath(Or(options.zip, options.file)))))
        ELSE IF missing # {}
        THEN Throw(NewError(getErrorMessage(mkt, errorMap[Min(missing)].reason)))
        ELSE Ok

\* errorMap is a sequence of [key, reason] in Object.keys order;
\* fileExists is what existsSync answers for the resolved bundle path.
validateOptions(mkt, options, errorMap, fileExists) ==
    LET missing == {i \in 1..Len(errorMap) : ~Truthy(options[errorMap[i].key])}
    IN  IF missing # {}
        THEN Throw(NewError(getErrorMessage(mkt, errorMap[Min(missing)].reason)))
        ELSE IF ~Truthy(options.zip) /\ ~Truthy(options.file)
        THEN Throw(NewError(getErrorMessage(mkt, <<"No extension bundle provided">>)))
        ELSE IF ~fileExists
        THEN Throw(NewError(getErrorMessage(mkt,
                     <<"Extension bundle file doesn't exist: ">>
                         \o getFullPath(Or(options.zip, options.file)))))
        ELSE Ok

\* What reading the version file gives: it may not exist; its text may not be
\* JSON; the parsed object may lack "version".
VersionFiles ==
    { [exists |-> FALSE, json |-> FALSE, version |-> <<>>],
      [exists |-> TRUE,  json |-> FALSE, version |-> <<>>],
      [exists |-> TRUE,  json |-> TRUE,  version |-> <<>>],
      [exists |-> TRUE,  json |-> TRUE,  version |-> <<"1.2.3">>] }

\* getCorrectZip: vf is the state of the file named by versionFile
\* (default "package.json").
getCorrectZip(options, vf) ==
    LET output == Or(options.zip, options.file)
    IN  IF vf.exists /\ Includes(output, "{version}")
        THEN IF ~vf.json
             THEN Throw(MakeError("Error", <<"Unexpected token in JSON">>,
                          <<"SyntaxError: ", "Unexpected token in JSON">>, FALSE, FALSE))
             ELSE [threw |-> FALSE, value |-> Replace(output, "{version}", vf.version)]
        ELSE [threw |-> FALSE, value |-> output]

\* getVerboseMessage: the step counter of mkt is incremented first; the
\* operator gives the text for the incremented counter n.
getVerboseMessage(message, prefix, mkt, n) ==
    LET msg == <<mkt, ": Step ", ToString(n), ") ">> \o message
    IN  IF prefix = "Error"
        THEN TrimStart(msg)
        ELSE LET p == IF prefix = "" THEN "Info" ELSE prefix
                 m2 == <<p, " ">> \o msg
             IN  IF p = "Info" THEN Trim(m2) ELSE m2

\* getVerboseError: the wrapped error, given the incremented counter n
getVerboseError(error, mkt, itemId, n) ==
    MakeError("Error",
              getVerboseMessage(<<"Item \"">> \o itemId \o <<"\": ">> \o error.message,
                                "Error", mkt, n),
              error.stack,
              error.request,
              error.response)

---------------------------------------------------------------------------
(* main.ts helpers *)

tag(prefix) == <<prefix, " |">>

getBundleFiles(opt) == Or(opt.zip, opt.file)

\* hasBundleFile that takes every options object to hold a bundle
hasBundleFileAlways(opt) == TRUE

hasBundleFile(opt) == Truthy(getBundleFiles(opt))

\* JSON.stringify of a text value
Quote(s) == <<"\"">> \o s \o <<"\"">>

getDetailedErrorMessage(error) ==
    IF error.type = "Error" /\ error.request
    THEN <<"{\"message\":">> \o Quote(error.message)
             \o (IF error.response THEN <<",\"body\":", "<body>">> ELSE <<>>)
             \o <<",\"requestOptions\":", "<options>", "}">>
    ELSE IF error.type = "Error"
    THEN Or(error.stack, error.message)
    ELSE Quote(error.message)

---------------------------------------------------------------------------
(* Inputs of a run *)

DefaultOptions ==
    [zip |-> <<>>, file |-> <<>>, versionFile |-> <<>>, verbose |-> FALSE,
     dryRun |-> FALSE, notes |-> <<>>,
     extId |-> <<>>, clientId |-> <<>>, refreshToken |-> <<>>]

\* The key orders of the "keys" input that are explored.
KeyOrders ==
    { <<>>, <<"opera">>, <<"chrome">>,
      <<"chrome", "firefox">>, <<"edge", "opera", "chrome">>,
      <<"firefox", "itero">> }

OwnZips(b) ==
    IF b = "chrome" THEN {<<>>, <<"own.zip">>, <<"{version}">>}
    ELSE {<<>>, <<"own.zip">>}

OwnFiles == {<<>>, <<"alias.zip">>}

\* Which of the client's required fields the chrome entry supplies.
Credentials ==
    { [extId |-> <<"ext">>, clientId |-> <<"id">>, refreshToken |-> <<"tok">>],
      [extId |-> <<>>,      clientId |-> <<"id">>, refreshToken |-> <<"tok">>],
      [extId |-> <<"ext">>, clientId |-> <<>>,     refreshToken |-> <<>>] }

\* The options objects a store's entry of the "keys" input may hold.
OptionInputs(b) ==
    IF b = "chrome"
    THEN { [DefaultOptions EXCEPT !.zip = z, !.file = f, !.dryRun = d,
                !.extId = c.extId, !.clientId = c.clientId,
                !.refreshToken = c.refreshToken] :
               z \in OwnZips(b), f \in OwnFiles, d \in BOOLEAN, c \in Credentials }
    ELSE IF b \in supportedBrowserSet
    THEN { [DefaultOptions EXCEPT !.zip = z, !.file = f] :
               z \in OwnZips(b), f \in OwnFiles }
    ELSE { DefaultOptions }

\* getInput("file"), getInput("zip"), getInput("artifact")
ArtifactInputs ==
    { [file |-> <<>>, zip |-> <<>>, artifact |-> <<>>],
      [file |-> <<>>, zip |-> <<>>, artifact |-> <<"artifact-input.zip">>],
      [file |-> <<"file-input.zip">>, zip |-> <<"zip-input.zip">>,
       artifact |-> <<"artifact-input.zip">>] }

\* getInput("<store>-file")
StoreFileInputs == {<<>>, <<"store-input.zip">>}

VersionFileInputs == {<<>>, <<"version.json">>}

\* getInput("notes"), getInput("edge-notes")
NotesInputs ==
    { [notes |-> <<>>, edgeNotes |-> <<>>],
      [notes |-> <<"notes-input">>, edgeNotes |-> <<"edge-notes-input">>] }

VerboseInputs == {<<>>, <<"true">>}

\* the errorMap of the chrome client: required field -> reason
ChromeErrorMap ==
    << [key |-> "extId",        reason |-> <<"No extension ID provided">>],
       [key |-> "clientId",     reason |-> <<"No client ID provided">>],
       [key |-> "refreshToken", reason |-> <<"No refresh token provided">>] >>

\* What the chrome client's submit may throw.
ClientErrors ==
    { NewError(<<"Upload failed">>),
      [NewError(<<"Response code 401">>) EXCEPT !.request = TRUE, !.response = TRUE] }

\* What getManifestJson throws on an unreadable bundle.
ManifestError == NewError(<<"invalid zip data">>)

\* What an external store's submission routine may reject with.
ExternalReasons ==
    { NewError(<<"submission failed">>),
      MakeError("string", <<"timeout">>, <<>>, FALSE, FALSE) }

NoReason == MakeError("none", <<>>, <<>>, FALSE, FALSE)

Pending == [state |-> "pending", value |-> FALSE, reason |-> NoReason]

Fulfilled(v) == [state |-> "fulfilled", value |-> v, reason |-> NoReason]

Rejected(e) == [state |-> "rejected", value |-> FALSE, reason |-> e]

Entry(level, index, text) == [level |-> level, index |-> index, text |-> text]

NoLocals == [artifact |-> <<>>, versionFile |-> <<>>, edgeNotes |-> <<>>, verbose |-> FALSE]

NoCall ==
    [op |-> "none", mkt |-> "", flag |-> FALSE, before |-> <<>>, lines |-> <<>>,
     text |-> <<>>]

NoValidate == [mkt |-> "chrome", options |-> DefaultOptions, errorMap |-> <<>>, fileExists |-> FALSE]

IdleVerbose ==
    /\ console = <<>>
    /\ verboseStepMap = [m \in BrowserName |-> 0]
    /\ verboseLogMap = [m \in BrowserName |-> FALSE]
    /\ envVerbose = FALSE

Init ==
    /\ pc = "start"
    /\ keyNames \in KeyOrders
    /\ keys \in [{keyNames[i] : i \in 1..Len(keyNames)} -> UNION {OptionInputs(b) : b \in BrowserName}]
    /\ \A b \in DOMAIN keys : keys[b] \in OptionInputs(b)
    /\ locals = NoLocals
    /\ browserEntries = <<>>
    /\ idx = 0
    /\ promises = <<>>
    /\ chromePc = "idle"
    /\ started = {}
    /\ validations = <<>>
    /\ netCalls = {}
    /\ log = <<>>
    /\ sources = <<>>
    /\ IdleVerbose
    /\ vIn = NoValidate
    /\ vOut = <<>>
    /\ lastCall = NoCall

---------------------------------------------------------------------------
(* main.ts: run() *)

\* setFailed(`${tag("ERROR")} ${text}`), for the result at index (0: none)
Failure(index, text) == Entry("failed", index, tag("ERROR") \o <<" ">> \o text)

\* line 55
Banner == Entry("info", 0, <<"Plasmo Browser Platform Publish v3">>)

\* lines 72-74
Candidates(names) == SelectSeq(names, LAMBDA b : b \in supportedBrowserSet)

\* ResolveBundle with the store's own field taken before the store's input
ResolveBundleOwnFirst(fromInput, fromKeys, artifact) ==
    IF Truthy(fromKeys) THEN fromKeys
    ELSE IF Truthy(fromInput) THEN fromInput
    ELSE artifact

\* lines 81-93: the bundle path chosen for a store; <<>> when there is none
ResolveBundle(fromInput, fromKeys, artifact) ==
    IF Truthy(fromInput) THEN fromInput
    ELSE IF Truthy(fromKeys) THEN fromKeys
    ELSE artifact

\* lines 55-78: the banner, the inputs, the candidates.  (With verbose set,
\* line 69 points console.log at info; the vendored lines are kept in console.)
Start ==
    /\ pc = "start"
    /\ \E a \in ArtifactInputs, vf \in VersionFileInputs,
          n \in NotesInputs, vb \in VerboseInputs :
          /\ locals' = [artifact    |-> Or(Or(a.file, a.zip), a.artifact),
                        versionFile |-> vf,
                        edgeNotes   |-> Or(n.notes, n.edgeNotes),
                        verbose     |-> Truthy(vb)]
          /\ browserEntries' = Candidates(keyNames)
          /\ IF Len(Candidates(keyNames)) = 0
             THEN /\ log' = log \o <<Banner, Failure(0, <<"No supported browser found">>)>>
                  /\ pc' = "done"
                  /\ idx' = 0
             ELSE /\ log' = Append(log, Banner)
                  /\ pc' = "resolve"
                  /\ idx' = 1
    /\ UNCHANGED <<keyNames, keys, promises, chromePc, started, validations,
                   netCalls, sources, verboseVars, vIn, vOut, lastCall>>

\* line 58: the "keys" input is missing or is not JSON; the Error is caught
\* at line 150
StartParseError ==
    /\ pc = "start"
    /\ keyNames = <<>>
    /\ log' = log \o <<Banner, Failure(0, <<"Unexpected end of JSON input">>)>>
    /\ pc' = "done"
    /\ UNCHANGED <<keyNames, keys, locals, browserEntries, idx, promises, chromePc,
                   started, validations, netCalls, sources, verboseVars,
                   vIn, vOut, lastCall>>

\* lines 80-103: one iteration of the resolution loop
ResolveStore ==
    /\ pc = "resolve"
    /\ \E fromInput \in StoreFileInputs :
          LET browser  == browserEntries[idx]
              fromKeys == getBundleFiles(keys[browser])
              chosen   == ResolveBundle(fromInput, fromKeys, locals.artifact)
              o1 == IF Truthy(chosen)
                    THEN [keys[browser] EXCEPT !.zip = chosen]
                    ELSE keys[browser]
              o2 == IF locals.verbose THEN [o1 EXCEPT !.verbose = TRUE] ELSE o1
              o3 == IF Truthy(locals.versionFile)
                    THEN [o2 EXCEPT !.versionFile = locals.versionFile]
                    ELSE o2
          IN  /\ keys' = [keys EXCEPT ![browser] = o3]
              /\ sources' = Append(sources,
                     [fromInput |-> fromInput, zip |-> keys[browser].zip,
                      file |-> keys[browser].file, artifact |-> locals.artifact])
              /\ log' = IF Truthy(chosen) THEN log
                        ELSE Append(log, Entry("warning", idx,
                                 tag("SKIP") \o <<" No artifact available to submit for ", browser>>))
    /\ IF idx < Len(browserEntries)
       THEN idx' = idx + 1 /\ pc' = "resolve"
       ELSE idx' = 0 /\ pc' = "check"
    /\ UNCHANGED <<keyNames, locals, browserEntries, promises, chromePc, started,
                   validations, netCalls, verboseVars, vIn, vOut, lastCall>>

\* hasAtLeastOneZip that only asks for a candidate store
hasAnyCandidate == Len(browserEntries) > 0

\* line 105
hasAtLeastOneZip ==
    \E i \in 1..Len(browserEntries) : hasBundleFile(keys[browserEntries[i]])

\* lines 105-119: the artifact check, the edge notes, the test short-circuit
CheckArtifacts ==
    /\ pc = "check"
    /\ IF ~hasAtLeastOneZip
       THEN /\ log' = Append(log, Failure(0, <<"No artifact found for deployment">>))
            /\ pc' = "done"
            /\ UNCHANGED <<keys, idx>>
       ELSE /\ keys' = IF "edge" \in DOMAIN keys /\ Truthy(locals.edgeNotes)
                       THEN [keys EXCEPT !["edge"].notes = locals.edgeNotes]
                       ELSE keys
            /\ \E nodeEnvTest \in BOOLEAN :
                  IF nodeEnvTest
                  THEN /\ log' = Append(log, Entry("debug", 0, <<"<inputs>", "<entries>">>))
                       /\ pc' = "done"
                       /\ idx' = 0
                  ELSE /\ log' = log
                       /\ pc' = "dispatch"
                       /\ idx' = 1
    /\ UNCHANGED <<keyNames, locals, browserEntries, promises, chromePc, started,
                   validations, netCalls, sources, verboseVars, vIn, vOut, lastCall>>

\* The positions of submitChrome that run inside the map callback, before
\* its first await.
ChromeSync == {"getCorrectZip", "enableVerbose", "validate", "submit"}

\* lines 127-136: the stores the switch has a case for
HasSubmitRoutine(browser) == browser \in {"chrome", "firefox", "edge", "itero"}

\* lines 121-137: the map callback for the store at idx
DispatchStore ==
    /\ pc = "dispatch"
    /\ chromePc \notin ChromeSync
    /\ idx <= Len(browserEntries)
    /\ LET browser == browserEntries[idx]
       IN  IF ~hasBundleFile(keys[browser])
           THEN /\ promises' = Append(promises, Fulfilled(FALSE))
                /\ UNCHANGED <<log, started, chromePc>>
           ELSE /\ log' = Append(log, Entry("info", idx,
                            tag("QUEUE") \o <<" Prepare for ", browser, " submission">>))
                /\ IF HasSubmitRoutine(browser)
                   THEN /\ started' = started \cup {browser}
                        /\ promises' = Append(promises, Pending)
                   ELSE /\ started' = started
                        /\ promises' = Append(promises, Fulfilled(FALSE))
                /\ chromePc' = IF browser = "chrome" THEN "getCorrectZip" ELSE chromePc
    /\ idx' = idx + 1
    /\ UNCHANGED <<pc, keyNames, keys, locals, browserEntries, validations,
                   netCalls, sources, verboseVars, vIn, vOut, lastCall>>

\* line 139: run() suspends at the await
AwaitAllSettled ==
    /\ pc = "dispatch"
    /\ chromePc \notin ChromeSync
    /\ idx > Len(browserEntries)
    /\ pc' = "await"
    /\ UNCHANGED <<keyNames, keys, locals, browserEntries, idx, promises, chromePc,
                   started, validations, netCalls, log, sources, verboseVars,
                   vIn, vOut, lastCall>>

\* Promise.all instead of Promise.allSettled: the first rejection ends the wait
SettledOrRejected(ps) ==
    \/ \A i \in 1..Len(ps) : ps[i].state # "pending"
    \/ \E i \in 1..Len(ps) : ps[i].state = "rejected"

\* Promise.allSettled: every promise is fulfilled or rejected
Settled(ps) == \A i \in 1..Len(ps) : ps[i].state # "pending"

\* line 139: the await resumes
AllSettled ==
    /\ pc = "await"
    /\ Settled(promises)
    /\ pc' = "report"
    /\ idx' = 1
    /\ UNCHANGED <<keyNames, keys, locals, browserEntries, promises, chromePc,
                   started, validations, netCalls, log, sources, verboseVars,
                   vIn, vOut, lastCall>>

\* ReportLine that takes a falsy result for a failure
ReportLineFalsyFails(result, index) ==
    IF result.state = "rejected"
    THEN <<Failure(index, getDetailedErrorMessage(result.reason))>>
    ELSE IF result.value
    THEN <<Entry("info", index,
               tag("DONE") \o <<" ", browserEntries[index], " submission successful">>)>>
    ELSE <<Failure(index, <<"no result">>)>>

\* lines 142-148: what forEach logs for one result
ReportLine(result, index) ==
    IF result.state = "rejected"
    THEN <<Failure(index, getDetailedErrorMessage(result.reason))>>
    ELSE IF result.value
    THEN <<Entry("info", index,
               tag("DONE") \o <<" ", browserEntries[index], " submission successful">>)>>
    ELSE <<>>

\* lines 141-149: the forEach callback for the result at idx
ReportResult ==
    /\ pc = "report"
    /\ log' = log \o ReportLine(promises[idx], idx)
    /\ IF idx < Len(promises)
       THEN idx' = idx + 1 /\ pc' = "report"
       ELSE idx' = 0 /\ pc' = "done"
    /\ UNCHANGED <<keyNames, keys, locals, browserEntries, promises, chromePc,
                   started, validations, netCalls, sources, verboseVars,
                   vIn, vOut, lastCall>>

\* An external store's submission routine settles while run() is suspended.
ExternalOutcomes ==
    {Fulfilled(TRUE), Fulfilled(FALSE)} \cup {Rejected(e) : e \in ExternalReasons}

ExternalSettle ==
    /\ pc = "await"
    /\ \E i \in 1..Len(promises), outcome \in ExternalOutcomes :
          /\ browserEntries[i] # "chrome"
          /\ promises[i].state = "pending"
          /\ promises' = [promises EXCEPT ![i] = outcome]
    /\ UNCHANGED <<pc, keyNames, keys, locals, browserEntries, idx, chromePc,
                   started, validations, netCalls, log, sources, verboseVars,
                   vIn, vOut, lastCall>>

---------------------------------------------------------------------------
(* chrome.ts: the verbose logger *)

\* line 135: the counter after one more line
NextStep(n) == 1 + n

\* a logger that does not look at the store's flag
LoggerAlways(mkt) == TRUE

\* lines 156-165: whether the logger of mkt builds and prints a line
LoggerEnabled(mkt) == verboseLogMap[mkt]

\* line 135: getVerboseMessage counts a step of mkt
CountStep(mkt) == verboseStepMap' = [verboseStepMap EXCEPT ![mkt] = NextStep(@)]

\* lines 151-154: enableVerboseLogging
EnableVerboseLogging(mkt) ==
    /\ verboseLogMap' = [verboseLogMap EXCEPT ![mkt] = TRUE]
    /\ envVerbose' = TRUE

\* lines 156-165: a call of the logger getVerboseLogger(mkt) returned
VLog(mkt, message) ==
    IF LoggerEnabled(mkt)
    THEN /\ CountStep(mkt)
         /\ console' = Append(console,
                getVerboseMessage(message, "", mkt, NextStep(verboseStepMap[mkt])))
    ELSE UNCHANGED <<verboseStepMap, console>>

---------------------------------------------------------------------------
(* chrome.ts: submitChrome and submit *)

ChromeIdx == CHOOSE i \in 1..Len(browserEntries) : browserEntries[i] = market

\* WithZip that also clears the alias field
WithZipClearAlias(options, value) == [options EXCEPT !.zip = value, !.file = <<>>]

\* line 234: the options object with its zip replaced
WithZip(options, value) == [options EXCEPT !.zip = value]

SettleChrome(outcome) ==
    /\ promises' = [promises EXCEPT ![ChromeIdx] = outcome]
    /\ chromePc' = "settled"

\* line 234: options.zip = getCorrectZip(options)
ChromeGetCorrectZip ==
    /\ chromePc = "getCorrectZip"
    /\ \E vf \in VersionFiles :
          LET r == getCorrectZip(keys[market], vf)
          IN  IF r.threw
              THEN /\ SettleChrome(Rejected(r.error))
                   /\ keys' = keys
              ELSE /\ keys' = [keys EXCEPT ![market] = WithZip(@, r.value)]
                   /\ chromePc' = "enableVerbose"
                   /\ promises' = promises
    /\ UNCHANGED <<pc, keyNames, locals, browserEntries, idx, started, validations,
                   netCalls, log, sources, verboseVars, vIn, vOut, lastCall>>

\* lines 236-238
ChromeEnableVerbose ==
    /\ chromePc = "enableVerbose"
    /\ IF keys[market].verbose
       THEN EnableVerboseLogging(market)
       ELSE UNCHANGED <<verboseLogMap, envVerbose>>
    /\ chromePc' = "validate"
    /\ UNCHANGED <<pc, keyNames, keys, locals, browserEntries, idx, promises,
                   started, validations, netCalls, log, sources, console,
                   verboseStepMap, vIn, vOut, lastCall>>

\* lines 240-244: validateOptions({market, options, errorMap})
ChromeValidate ==
    /\ chromePc = "validate"
    /\ \E fileExists \in BOOLEAN :
          LET r == validateOptions(market, keys[market], ChromeErrorMap, fileExists)
          IN  /\ validations' = Append(validations,
                     [mkt |-> market, fileExists |-> fileExists, threw |-> r.threw])
              /\ IF r.threw
                 THEN SettleChrome(Rejected(r.error))
                 ELSE /\ chromePc' = "submit"
                      /\ promises' = promises
    /\ UNCHANGED <<pc, keyNames, keys, locals, browserEntries, idx, started,
                   netCalls, log, sources, verboseVars, vIn, vOut, lastCall>>

\* lines 207-222: submit() up to the await of client.submit
ChromeSubmit ==
    /\ chromePc = "submit"
    /\ VLog(market, <<"Updating extension with ID ">> \o keys[market].extId)
    /\ IF keys[market].dryRun
       THEN /\ SettleChrome(Fulfilled(TRUE))
            /\ netCalls' = netCalls
       ELSE /\ netCalls' = netCalls \cup {market}
            /\ chromePc' = "network"
            /\ promises' = promises
    /\ UNCHANGED <<pc, keyNames, keys, locals, browserEntries, idx, started,
                   validations, log, sources, verboseLogMap, envVerbose,
                   vIn, vOut, lastCall>>

\* `"${extId}" (${manifest.name})`
ItemId(options) == <<"\"">> \o options.extId \o <<"\" (", "<name>", ")">>

\* lines 219-226: client.submit resolved; logSuccessfullyPublished reads the
\* manifest inside the try block, so an unreadable bundle lands in the catch,
\* where reading the manifest again throws out of submit()
ChromeClientResolved ==
    /\ pc = "await"
    /\ chromePc = "network"
    /\ \E manifestOk \in BOOLEAN :
          IF manifestOk
          THEN /\ console' = Append(console,
                      <<"Successfully updated ">> \o ItemId(keys[market])
                          \o <<" on ", "Chrome Web Store", "!">>)
               /\ SettleChrome(Fulfilled(TRUE))
          ELSE /\ console' = console
               /\ SettleChrome(Rejected(ManifestError))
    /\ UNCHANGED <<pc, keyNames, keys, locals, browserEntries, idx, started,
                   validations, netCalls, log, sources, verboseStepMap,
                   verboseLogMap, envVerbose, vIn, vOut, lastCall>>

\* lines 227-230: client.submit threw; the error is wrapped by getVerboseError
ChromeClientRejected ==
    /\ pc = "await"
    /\ chromePc = "network"
    /\ \E e \in ClientErrors, manifestOk \in BOOLEAN :
          IF manifestOk
          THEN /\ CountStep(market)
               /\ SettleChrome(Rejected(getVerboseError(e, market,
                      ItemId(keys[market]), NextStep(verboseStepMap[market]))))
          ELSE /\ verboseStepMap' = verboseStepMap
               /\ SettleChrome(Rejected(ManifestError))
    /\ UNCHANGED <<pc, keyNames, keys, locals, browserEntries, idx, started,
                   validations, netCalls, log, sources, console,
                   verboseLogMap, envVerbose, vIn, vOut, lastCall>>

Next ==
    \/ Start
    \/ StartParseError
    \/ ResolveStore
    \/ CheckArtifacts
    \/ DispatchStore
    \/ ChromeGetCorrectZip
    \/ ChromeEnableVerbose
    \/ ChromeValidate
    \/ ChromeSubmit
    \/ AwaitAllSettled
    \/ ExternalSettle
    \/ ChromeClientResolved
    \/ ChromeClientRejected
    \/ AllSettled
    \/ ReportResult

Spec == Init /\ [][Next]_vars

---------------------------------------------------------------------------
(* validateOptions on its own: every combination of store, options, errorMap
   and file existence, and the outcome of the call *)

\* No run() is in progress.
RunIdle ==
    /\ pc = "off"
    /\ keyNames = <<>>
    /\ keys = <<>>
    /\ locals = NoLocals
    /\ browserEntries = <<>>
    /\ idx = 0
    /\ promises = <<>>
    /\ chromePc = "idle"
    /\ started = {}
    /\ validations = <<>>
    /\ netCalls = {}
    /\ log = <<>>
    /\ sources = <<>>

\* errorMap arguments: the chrome client's, one in another key order, and the
\* parameter's default {}
ErrorMaps ==
    { ChromeErrorMap,
      << [key |-> "refreshToken", reason |-> <<"No refresh token provided">>],
         [key |-> "extId",        reason |-> <<"No extension ID provided">>] >>,
      <<>> }

FieldValues(present) == {<<>>, present}

ValidateInputs ==
    { [mkt |-> m,
       options |-> [DefaultOptions EXCEPT !.zip = z, !.file = f, !.extId = e,
                        !.clientId = c, !.refreshToken = t],
       errorMap |-> em,
       fileExists |-> x] :
          m \in {"chrome", "firefox"},
          z \in FieldValues(<<"own.zip">>), f \in FieldValues(<<"alias.zip">>),
          e \in FieldValues(<<"ext">>), c \in FieldValues(<<"id">>),
          t \in FieldValues(<<"tok">>),
          em \in ErrorMaps, x \in BOOLEAN }

InitValidate ==
    /\ RunIdle
    /\ IdleVerbose
    /\ vIn \in ValidateInputs
    /\ vOut = <<>>
    /\ lastCall = NoCall

CallValidateOptions ==
    /\ vOut = <<>>
    /\ vOut' = <<validateOptions(vIn.mkt, vIn.options, vIn.errorMap, vIn.fileExists)>>
    /\ UNCHANGED <<runVars, verboseVars, vIn, lastCall>>

NextValidate == CallValidateOptions

SpecValidate == InitValidate /\ [][NextValidate]_vars

---------------------------------------------------------------------------
(* The verbose logger on its own: any sequence of enableVerboseLogging,
   logger and getVerboseError calls for two stores *)

\* Cap of each store's step counter in the explored call sequences.
MaxSteps == 3

CallMarkets == {"chrome", "firefox"}

LogMessages == {<<"uploading">>, <<"done", " ">>}

Call(op, mkt, text) ==
    [op |-> op, mkt |-> mkt, flag |-> verboseLogMap[mkt],
     before |-> verboseStepMap, lines |-> console, text |-> text]

InitVerbose ==
    /\ RunIdle
    /\ IdleVerbose
    /\ vIn = NoValidate
    /\ vOut = <<>>
    /\ lastCall = NoCall

CallEnableVerboseLogging ==
    /\ \E m \in CallMarkets :
          /\ EnableVerboseLogging(m)
          /\ lastCall' = Call("enable", m, <<>>)
    /\ UNCHANGED <<runVars, console, verboseStepMap, vIn, vOut>>

\* getVerboseLogger(m)(message)
CallLogger ==
    /\ \E m \in CallMarkets, message \in LogMessages :
          /\ verboseStepMap[m] < MaxSteps
          /\ VLog(m, message)
          /\ lastCall' = Call("log", m,
                 IF LoggerEnabled(m)
                 THEN getVerboseMessage(message, "", m, NextStep(verboseStepMap[m]))
                 ELSE <<>>)
    /\ UNCHANGED <<runVars, verboseLogMap, envVerbose, vIn, vOut>>

\* getVerboseError(e, m, itemId)
CallGetVerboseError ==
    /\ \E m \in CallMarkets, e \in ClientErrors :
          /\ verboseStepMap[m] < MaxSteps
          /\ CountStep(m)
          /\ lastCall' = Call("error", m,
                 getVerboseError(e, m, <<"item">>, NextStep(verboseStepMap[m])).message)
    /\ UNCHANGED <<runVars, console, verboseLogMap, envVerbose, vIn, vOut>>

NextVerbose ==
    \/ CallEnableVerboseLogging
    \/ CallLogger
    \/ CallGetVerboseError

SpecVerbose == InitVerbose /\ [][NextVerbose]_vars

---------------------------------------------------------------------------
(* Properties *)

\* The bundle path a resolved store should hold, from the sources it saw.
Expected(src) ==
    IF src.fromInput # <<>> THEN src.fromInput
    ELSE IF src.zip # <<>> THEN src.zip
    ELSE IF src.file # <<>> THEN src.file
    ELSE src.artifact

\* The store at index i was resolved and no bundle was found for it.
Skipped(i) == i <= Len(sources) /\ Expected(sources[i]) = <<>>

Failed == \E k \in 1..Len(log) : log[k].level = "failed"

FailureLines(i) ==
    {k \in 1..Len(log) : log[k].level = "failed" /\ log[k].index = i}

DoneLines(i) ==
    {k \in 1..Len(log) : /\ log[k].level = "info"
                         /\ log[k].index = i
                         /\ Head(log[k].text) = "DONE"}

WarningLines(i) ==
    {k \in 1..Len(log) : log[k].level = "warning" /\ log[k].index = i}

\* The forEach callback has run for the result at index i.
Reported(i) ==
    /\ i <= Len(promises)
    /\ \/ pc = "done"
       \/ pc = "report" /\ i < idx

IsSettled(p) == p.state \in {"fulfilled", "rejected"}

\* C1: every candidate store that has a bundle has its submission routine
\* started, whatever the outcome of the stores before it; once run() is at
\* its await every candidate has a result slot; results are processed only
\* when every submission has settled; and every rejected or successful
\* result that has been processed has exactly one line recording it.
C1_AllSettle ==
    /\ \A i \in 1..Len(promises) :
          ~Skipped(i) => browserEntries[i] \in started
    /\ pc \in {"await", "report"} => Len(promises) = Len(browserEntries)
    /\ (pc = "report" \/ (pc = "done" /\ promises # <<>>)) =>
          /\ Len(promises) = Len(browserEntries)
          /\ \A i \in 1..Len(promises) : IsSettled(promises[i])
    /\ \A i \in 1..Len(promises) :
          Reported(i) =>
             /\ promises[i].state = "rejected" => Cardinality(FailureLines(i)) = 1
             /\ (promises[i].state = "fulfilled" /\ promises[i].value) =>
                    Cardinality(DoneLines(i)) = 1

\* C1 witness: chrome, dispatched first, was rejected and firefox, dispatched
\* after it, was still started, settled successfully and was recorded.
C1_Witness ==
    /\ pc = "done"
    /\ browserEntries = <<"chrome", "firefox">>
    /\ Len(promises) = 2
    /\ promises[1].state = "rejected"
    /\ promises[2].state = "fulfilled" /\ promises[2].value
    /\ "firefox" \in started
    /\ FailureLines(1) # {}
    /\ DoneLines(2) # {}

\* run() got past its setup.
PastSetup ==
    \/ pc \in {"dispatch", "await", "report"}
    \/ pc = "done" /\ promises # <<>>
    \/ pc = "done" /\ \E k \in 1..Len(log) : log[k].level = "debug"

\* C2: a run past setup that has ended is marked failed exactly if a
\* submission was rejected, and a run past setup in which no submission is
\* rejected is never marked failed.
C2_FailedIffRejected ==
    /\ (pc = "done" /\ promises # <<>>) =>
          (Failed <=> \E i \in 1..Len(promises) : promises[i].state = "rejected")
    /\ (PastSetup /\ \A i \in 1..Len(promises) : promises[i].state # "rejected")
          => ~Failed

\* C2 witness: a finished run with one rejected and one skipped store, failed.
C2_Witness ==
    /\ pc = "done"
    /\ Failed
    /\ \E i, j \in 1..Len(promises) :
          /\ promises[i].state = "rejected"
          /\ promises[j].state = "fulfilled" /\ ~promises[j].value

\* chrome's options still hold what the resolution loop wrote.
ChromeUntouched(i) == browserEntries[i] = market => chromePc = "idle"

\* C3: a resolved store's zip is the store's input if non-empty, else its
\* own zip, else its own file, else the global artifact; when all are empty
\* the store has no bundle, one warning was logged for it, and the
\* resolution phase logged no failure.
C3_BundlePriority ==
    /\ \A i \in 1..Len(sources) :
          LET opt == keys[browserEntries[i]]
          IN  /\ (ChromeUntouched(i) /\ Expected(sources[i]) # <<>>) =>
                    /\ opt.zip = Expected(sources[i])
                    /\ WarningLines(i) = {}
              /\ (ChromeUntouched(i) /\ Expected(sources[i]) = <<>>) =>
                    /\ opt.zip = <<>> /\ opt.file = <<>>
                    /\ Cardinality(WarningLines(i)) = 1
                    /\ FailureLines(i) = {}
    /\ pc \in {"resolve", "check"} => ~Failed

\* C3 witness: chrome's own zip won over the global artifact and firefox,
\* with no field of its own, took the global artifact.
C3_Witness ==
    /\ pc = "check"
    /\ browserEntries = <<"chrome", "firefox">>
    /\ sources[1].fromInput = <<>> /\ sources[1].zip = <<"own.zip">>
    /\ sources[1].artifact = <<"artifact-input.zip">>
    /\ keys["chrome"].zip = <<"own.zip">>
    /\ sources[2].fromInput = <<>> /\ sources[2].zip = <<>> /\ sources[2].file = <<>>
    /\ keys["firefox"].zip = <<"artifact-input.zip">>

\* Every candidate store was resolved and none has a bundle.
NoBundleAnywhere ==
    /\ browserEntries # <<>>
    /\ Len(sources) = Len(browserEntries)
    /\ \A i \in 1..Len(sources) : Skipped(i)

NoArtifactFailure == Failure(0, <<"No artifact found for deployment">>)

\* C4: when no candidate store has a bundle after resolution, the run ends
\* with the "No artifact found" failure and no submission routine, validation
\* or network call ever happens in it.
C4_NoArtifact ==
    (NoBundleAnywhere /\ pc \notin {"resolve", "check"}) =>
       /\ pc = "done"
       /\ log # <<>> /\ log[Len(log)] = NoArtifactFailure
       /\ Cardinality({k \in 1..Len(log) : log[k].level = "failed"}) = 1
       /\ started = {} /\ netCalls = {} /\ validations = <<>>
       /\ promises = <<>> /\ chromePc = "idle"

\* C4 witness: two candidate stores, neither with a bundle, and the run over.
C4_Witness ==
    /\ NoBundleAnywhere
    /\ Len(browserEntries) = 2
    /\ pc = "done"
    /\ log[Len(log)] = NoArtifactFailure

RequiredPresent(opt) ==
    /\ opt.extId # <<>>
    /\ opt.clientId # <<>>
    /\ opt.refreshToken # <<>>

\* C5: the client's submit call is made only after validateOptions has
\* returned without throwing; a validation of options that lack a required
\* field or a bundle path, or whose bundle file does not exist, throws, the
\* submission ends rejected and the submit call is never made.
C5_ValidateBeforeSubmit ==
    /\ market \in netCalls =>
          \E v \in 1..Len(validations) :
             validations[v].mkt = market /\ ~validations[v].threw
    /\ chromePc \in {"getCorrectZip", "enableVerbose", "validate"} =>
          market \notin netCalls
    /\ \A v \in 1..Len(validations) :
          ( /\ validations[v].mkt = market
            /\ \/ ~RequiredPresent(keys[market])
               \/ (keys[market].zip = <<>> /\ keys[market].file = <<>>)
               \/ ~validations[v].fileExists )
          => /\ validations[v].threw
             /\ market \notin netCalls
             /\ chromePc = "settled"
             /\ promises[ChromeIdx].state = "rejected"

\* C5 witness: chrome lacked a required field, its validation threw, and the
\* run ended without a submit call.
C5_Witness ==
    /\ pc = "done"
    /\ Len(validations) = 1
    /\ validations[1].threw
    /\ validations[1].fileExists
    /\ ~RequiredPresent(keys[market])
    /\ keys[market].zip # <<>>
    /\ netCalls = {}
    /\ promises[ChromeIdx].state = "rejected"

\* C6: a store for which no bundle resolved is never started, validated or
\* submitted; its result is the immediate false; and the only line logged for
\* it is the resolution warning.
C6_SkippedNeverSubmitted ==
    \A i \in 1..Len(sources) :
       Skipped(i) =>
          LET b == browserEntries[i]
          IN  /\ b \notin started
              /\ b \notin netCalls
              /\ \A v \in 1..Len(validations) : validations[v].mkt # b
              /\ (b = market => chromePc = "idle")
              /\ i <= Len(promises) =>
                    /\ promises[i].state = "fulfilled"
                    /\ promises[i].value = FALSE
              /\ \A k \in 1..Len(log) :
                    log[k].index = i => log[k].level = "warning"

\* C6 witness: a finished run in which one store was skipped and another
\* was submitted successfully.
C6_Witness ==
    /\ pc = "done"
    /\ \E i, j \in 1..Len(promises) :
          /\ Skipped(i)
          /\ promises[i].state = "fulfilled" /\ ~promises[i].value
          /\ browserEntries[j] \in started
          /\ promises[j].state = "fulfilled" /\ promises[j].value

\* C7 as stated: once a submission routine has been invoked, no field of any
\* store's options is written.
C7_NoWriteAfterDispatch == [][started # {} => keys' = keys]_vars

\* C7 amended: once a submission routine has been invoked, the only write to
\* the options is submitChrome's assignment of getCorrectZip's result to
\* chrome's own zip; every other field of chrome's options and every other
\* store's options stay as the resolution phase left them.
C7_OnlyChromeZipWritten ==
    [][started # {} =>
          \A b \in DOMAIN keys :
             /\ b # market => keys'[b] = keys[b]
             /\ b = market =>
                   /\ [keys'[b] EXCEPT !.zip = keys[b].zip] = keys[b]
                   /\ keys'[b].zip # keys[b].zip =>
                         /\ chromePc = "getCorrectZip"
                         /\ \E vf \in VersionFiles :
                               keys'[b].zip =
                                  Replace(Or(keys[b].zip, keys[b].file),
                                          "{version}", vf.version)]_vars

\* C7 witness: a submission routine has been invoked and chrome's zip is no
\* longer what the resolution phase wrote.
C7_Witness ==
    /\ started # {}
    /\ market \in DOMAIN keys
    /\ chromePc \notin {"idle", "getCorrectZip"}
    /\ keys[market].zip # Expected(sources[ChromeIdx])
    /\ keys[market].zip = <<"1.2.3">>

\* The reason was built by getErrorMessage or getVerboseError for mkt.
BuiltFor(reason, mkt) ==
    reason.type = "Error" /\ reason.message # <<>> /\ Head(reason.message) = mkt

\* C8: each rejected result has exactly one failure line once processed, and
\* the line for a rejection of chrome whose reason is a precondition error or
\* an error wrapped by getVerboseError names the store.
C8_FailureLineNamesStore ==
    \A i \in 1..Len(promises) :
       (Reported(i) /\ promises[i].state = "rejected") =>
          /\ Cardinality(FailureLines(i)) = 1
          /\ (browserEntries[i] = market /\ BuiltFor(promises[i].reason, market)) =>
                \A k \in FailureLines(i) : Includes(log[k].text, market)

\* C9 as stated: the counters start at zero; a call changes only its own
\* store's counter, by one at most; the counter moves only while the store's
\* flag is enabled; while it is disabled nothing is counted or printed.
C9_CountsOnlyWhileEnabled ==
    /\ lastCall.op = "none" => \A m \in BrowserName : verboseStepMap[m] = 0
    /\ lastCall.op # "none" =>
          LET m == lastCall.mkt
          IN  /\ \A o \in BrowserName \ {m} : verboseStepMap[o] = lastCall.before[o]
              /\ verboseStepMap[m] \in {lastCall.before[m], lastCall.before[m] + 1}
              /\ verboseStepMap[m] # lastCall.before[m] => lastCall.flag
              /\ ~lastCall.flag =>
                    /\ verboseStepMap[m] = lastCall.before[m]
                    /\ console = lastCall.lines

\* C9 amended: the counters start at zero; a call changes only its own
\* store's counter; a logger call made while the flag is enabled counts one
\* step and prints one line carrying the new step number; a logger call made
\* while the flag is disabled counts and prints nothing; getVerboseError
\* counts one step whatever the flag, puts the new step number in the
\* message and prints nothing; enableVerboseLogging counts and prints nothing.
C9_CountsPerCall ==
    /\ lastCall.op = "none" => \A m \in BrowserName : verboseStepMap[m] = 0
    /\ lastCall.op # "none" =>
          LET m == lastCall.mkt
              n == lastCall.before[m]
          IN  /\ \A o \in BrowserName \ {m} : verboseStepMap[o] = lastCall.before[o]
              /\ (lastCall.op = "log" /\ lastCall.flag) =>
                    /\ verboseStepMap[m] = n + 1
                    /\ console = Append(lastCall.lines, lastCall.text)
                    /\ Includes(lastCall.text, ToString(n + 1))
                    /\ Includes(lastCall.text, m)
              /\ (lastCall.op = "log" /\ ~lastCall.flag) =>
                    /\ verboseStepMap[m] = n
                    /\ console = lastCall.lines
              /\ lastCall.op = "error" =>
                    /\ verboseStepMap[m] = n + 1
                    /\ console = lastCall.lines
                    /\ Includes(lastCall.text, ToString(n + 1))
              /\ lastCall.op = "enable" =>
                    /\ verboseStepMap[m] = n
                    /\ console = lastCall.lines
                    /\ verboseLogMap[m]

\* C9 witness: getVerboseError was called for a store whose flag was
\* disabled and the store's counter moved.
C9_Witness ==
    /\ lastCall.op = "error"
    /\ ~lastCall.flag
    /\ verboseStepMap[lastCall.mkt] = lastCall.before[lastCall.mkt] + 1
    /\ \E o \in CallMarkets : o # lastCall.mkt /\ verboseStepMap[o] > 0

\* C10: validateOptions throws for the first required field, in errorMap
\* order, that is not truthy, with that field's reason; with every required
\* field present it throws "No extension bundle provided" when zip and file
\* are both empty; with a bundle path it throws "file doesn't exist" with the
\* full path when the file is missing; otherwise it returns.  Every message
\* is prefixed by the store.
C10_ValidateOrder ==
    vOut # <<>> =>
       LET r  == vOut[1]
           o  == vIn.options
           em == vIn.errorMap
           Missing(i) == o[em[i].key] = <<>>
       IN  IF \E i \in 1..Len(em) : Missing(i)
           THEN /\ r.threw
                /\ \E i \in 1..Len(em) :
                      /\ Missing(i)
                      /\ \A j \in 1..(i-1) : ~Missing(j)
                      /\ r.error.message = <<vIn.mkt, ": ">> \o em[i].reason
           ELSE IF o.zip = <<>> /\ o.file = <<>>
           THEN /\ r.threw
                /\ r.error.message = <<vIn.mkt, ": ", "No extension bundle provided">>
           ELSE IF ~vIn.fileExists
           THEN /\ r.threw
                /\ r.error.message =
                      <<vIn.mkt, ": ", "Extension bundle file doesn't exist: ", "/cwd/">>
                          \o (IF o.zip # <<>> THEN o.zip ELSE o.file)
           ELSE ~r.threw

\* C10 witness: two required fields and the bundle were missing and the
\* error is the one for the first of the two fields.
C10_Witness ==
    /\ vOut # <<>>
    /\ vIn.errorMap = ChromeErrorMap
    /\ vIn.options.extId # <<>>
    /\ vIn.options.clientId = <<>>
    /\ vIn.options.refreshToken = <<>>
    /\ vIn.options.zip = <<>> /\ vIn.options.file = <<>>
    /\ vOut[1].threw
    /\ vOut[1].error.message = <<vIn.mkt, ": ", "No client ID provided">>

====
